---- MODULE Spec2Model ----
(***************************************************************************)
(* State-machine model of avfplayer.py (class AVFPlayer): the loader       *)
(* (_load_process_full), the GTIA palette synthesizer                      *)
(* (_generate_gtia_palette) and the playback loop (run).                   *)
(*                                                                         *)
(* Units.  Times are integer milliseconds, as pygame.time.get_ticks()      *)
(* returns them.  fps is kept in hundredths (49.86 -> 4986).  phase_shift  *)
(* and saturation are kept in steps of 0.05, the only amount the code ever *)
(* adds to them (1.8 -> 36, 0.15 -> 3, 2.0 -> 40).  Arithmetic the code    *)
(* does in binary floating point is done exactly here.                     *)
(***************************************************************************)
EXTENDS Integers, Sequences, FiniteSets, TLC

VARIABLES
  \* the file on disk and the audio device (inputs of the constructor)
  filesize, fill, is_pal, mix_freq, mix_chans,
  \* fields of AVFPlayer
  looping, debug_mode, show_scanlines, enable_blending,
  phase_shift, saturation, palette,
  video_frames, final_sound_obj,
  \* locals of _load_process_full, held until the constructor returns: the taps,
  \* and per frame the working array with the set of indices assigned in it
  audio_chunks, audio_work,
  \* locals of run()
  pc, running, loop_active, paused, pause_start, start_ticks, f_idx,
  \* the environment: the millisecond clock and the mixer channel
  now, audio,
  \* history: the event handled last; the reading from which playing time
  \* counts (the start of the session moved on by the pauses completed in it);
  \* the reading at which the last pause began; whether the session has
  \* completed a pause of nonzero length; the index rendered last in the session
  ev, play_ref, pause_began, had_pause, last_idx

fileVars == <<filesize, fill, is_pal, mix_freq, mix_chans>>
tuneVars == <<phase_shift, saturation, palette>>
flagVars == <<looping, debug_mode, show_scanlines, enable_blending>>
dataVars == <<video_frames, final_sound_obj, audio_chunks, audio_work>>
loopVars == <<running, loop_active, paused, pause_start, start_ticks, f_idx>>
histVars == <<play_ref, pause_began, had_pause, last_idx>>
vars == <<fileVars, tuneVars, flagVars, dataVars, loopVars, histVars, pc, now, audio, ev>>

Min(a, b) == IF a < b THEN a ELSE b
Max(a, b) == IF a > b THEN a ELSE b

(***************************************************************************)
(* Program constants                                                       *)
(***************************************************************************)
FRAME_SIZE_BYTES == 8704
HEADER_SIZE == 8192
HEIGHT == 192
AC_SIZE == 512
SILENCE == 50
PAL_FPS == 4986
NTSC_FPS == 5992
PAL_AUDIO_LEN == 312
NTSC_AUDIO_LEN == 262
PAUSED_PERIOD_MS == 100
DEFAULT_PHASE == 36
DEFAULT_SATURATION == 3
MAX_SATURATION == 40

(***************************************************************************)
(* Bounds of the model                                                     *)
(***************************************************************************)
MaxFrames == 2
MaxSeed == 1
MaxPhaseSteps == 2
TickMs == 20
MaxTicks == 200

(***************************************************************************)
(* The file.  Its bytes are a function of the offset and of a seed, so     *)
(* that different offsets hold different values.                           *)
(***************************************************************************)
FileByte(seed, p) == (seed * 50 + p * 37) % 256

Remainders == {0, 1, 511, 512, 8191, 8192, 8193, 8703}
FileSizes == {q * FRAME_SIZE_BYTES + r : q \in 0..MaxFrames, r \in Remainders}
MixFreqs == {22050, 44100, 48000}

\* f.seek(HEADER_SIZE) when the size is no multiple of the frame size;
\* f.read() past the end of the file returns b"".
HeaderSkipMutant(size) == HEADER_SIZE
HeaderSkip(size) == IF size % FRAME_SIZE_BYTES # 0 THEN HEADER_SIZE ELSE 0
RawLen(size) == Max(0, size - HeaderSkip(size))
RawByte(size, seed, k) == FileByte(seed, HeaderSkip(size) + k)

NumFrames(size) == RawLen(size) \div FRAME_SIZE_BYTES

\* chunk = raw[base : base+FRAME_SIZE_BYTES]: a slice is cut at the end of raw
Chunk(size, seed, i) ==
  LET base == i * FRAME_SIZE_BYTES
  IN  [base |-> base, len |-> Max(0, Min(FRAME_SIZE_BYTES, RawLen(size) - base)),
       size |-> size, seed |-> seed]
ChunkByte(c, j) == RawByte(c.size, c.seed, c.base + j)

(***************************************************************************)
(* Video extraction: sub-block b gives rows 3b, 3b+1, 3b+2 from bytes      *)
(* [1,41), [45,85), [88,128).  A frame is kept as its four corner bytes.   *)
(***************************************************************************)
RowStart(row) ==
  LET b == row \div 3
      bb == b * 128
  IN  CASE row % 3 = 0 -> bb + 1
        [] row % 3 = 1 -> bb + 45
        [] OTHER       -> bb + 88
VideoCell(c, row, col) == ChunkByte(c, RowStart(row) + col)
VideoFrame(c) ==
  <<VideoCell(c, 0, 0), VideoCell(c, 0, 39),
    VideoCell(c, HEIGHT - 1, 0), VideoCell(c, HEIGHT - 1, 39)>>

(***************************************************************************)
(* Audio extraction.  t = [ac, ptr, written]: the working array, the       *)
(* cursor, and the set of indices assigned so far.                         *)
(***************************************************************************)
Offsets(pal) == IF pal THEN <<120, 52>> ELSE <<70, 52>>
AudioLen(pal) == IF pal THEN PAL_AUDIO_LEN ELSE NTSC_AUDIO_LEN

SilenceFillMutant == [i \in 0..(AC_SIZE - 1) |-> 0]
SilenceFill == [i \in 0..(AC_SIZE - 1) |-> SILENCE]

Put(t, idx, c, src) ==
  [t EXCEPT !.ac = IF idx \in DOMAIN @ THEN [@ EXCEPT ![idx] = ChunkByte(c, src)] ELSE @,
            !.written = @ \cup {idx}]

Put9(t, y, c, off1, off2) ==
  LET p == t.ptr
      t0 == Put(t, y, c, p)
      t1 == Put(t0, y + off1, c, p + 1)
      t2 == Put(t1, y + 32 + off1, c, p + 2)
      t3 == Put(t2, y + 64 + off1, c, p + 3)
      t4 == Put(t3, y + 96 + off1, c, p + 4)
      t5 == Put(t4, y + 128 + off1, c, p + 5)
      t6 == Put(t5, y + 160 + off1, c, p + 6)
      t7 == Put(t6, y + off2, c, p + 7)
      t8 == Put(t7, y + 32 + off2, c, p + 8)
  IN  [t8 EXCEPT !.ptr = p + 10]

RECURSIVE TapLoop1(_, _, _, _, _)
TapLoop1(y, t, c, off1, off2) ==
  IF y >= 32 \/ t.ptr + 9 >= c.len THEN t
  ELSE TapLoop1(y + 1, Put9(t, y, c, off1, off2), c, off1, off2)

TapStep2(t, y, c, pal, off2) ==
  LET t0 == [Put(t, y + 32, c, t.ptr) EXCEPT !.ptr = t.ptr + 1]
  IN  IF pal
      THEN LET t1 == IF t0.ptr < c.len
                     THEN [Put(t0, y + 64 + off2, c, t0.ptr) EXCEPT !.ptr = t0.ptr + 1]
                     ELSE t0
           IN  [t1 EXCEPT !.ptr = @ + 8]
      ELSE [t0 EXCEPT !.ptr = @ + 9]

RECURSIVE TapLoop2(_, _, _, _, _)
TapLoop2(y, t, c, pal, off2) ==
  IF y >= 19 \/ t.ptr >= c.len THEN t
  ELSE TapLoop2(y + 1, TapStep2(t, y, c, pal, off2), c, pal, off2)

AudioWork(c, pal) ==
  LET off1 == Offsets(pal)[1]
      off2 == Offsets(pal)[2]
      t0 == [ac |-> SilenceFill, ptr |-> 8192, written |-> {}]
      t1 == TapLoop1(0, t0, c, off1, off2)
      t2 == TapLoop2(0, t1, c, pal, off2)
  IN  IF t2.ptr < c.len THEN Put(t2, 51, c, t2.ptr) ELSE t2

\* ac[:audio_len]
AudioTap(c, pal) ==
  LET w == AudioWork(c, pal)
  IN  [i \in 0..(Min(AudioLen(pal), AC_SIZE) - 1) |-> w.ac[i]]

(***************************************************************************)
(* Audio sync: vid_dur = num_frames / fps; tgt_samples = int(vid_dur *     *)
(* mix_freq).  int() truncates; the operands are never negative.           *)
(***************************************************************************)
Fps(pal) == IF pal THEN PAL_FPS ELSE NTSC_FPS
TgtSamplesMutant(n, pal, freq) == (2 * n * freq * 100 + Fps(pal)) \div (2 * Fps(pal))
TgtSamples(n, pal, freq) == (n * freq * 100) \div Fps(pal)

(***************************************************************************)
(* _generate_gtia_palette.  Index = (chroma << 4) | luma, value = <<r,g,b>>.*)
(* Levels are computed in millionths.  cos and sin are taken in thousandths*)
(* from Bhaskara's rational approximation, on angles in milliradians; the  *)
(* table is a function of (phase_shift, saturation) as in the code.        *)
(***************************************************************************)
PI_MRAD == 3142
Sin1000(x) ==
  LET a == x % (2 * PI_MRAD)
      h == IF a > PI_MRAD THEN a - PI_MRAD ELSE a
      q == h * (PI_MRAD - h)
      v == (16 * q) \div ((5 * PI_MRAD * PI_MRAD - 4 * q) \div 1000)
  IN  IF a > PI_MRAD THEN 0 - v ELSE v
Cos1000(x) == Sin1000(x + PI_MRAD \div 2)

\* max(0, min(255, int(level * 255)))
Channel(level6) == Max(0, Min(255, (level6 * 255) \div 1000000))

GrayEntry(luma) ==
  LET val == (luma * 255) \div 15
  IN  <<val, val, val>>

ColorEntry(chroma, luma, phase, sat) ==
  LET angle == ((chroma - 1) * 2 * PI_MRAD) \div 15 + phase * 50
      y == (luma * 1000000) \div 15
      u == (sat * 25 * Cos1000(angle))
      v == (sat * 25 * Sin1000(angle))
      r == y + (1140 * (v \div 10)) \div 100
      g == y - (395 * (u \div 10)) \div 100 - (581 * (v \div 10)) \div 100
      b == y + (2032 * (u \div 10)) \div 100
  IN  <<Channel(r), Channel(g), Channel(b)>>

SynthesizePalette(phase, sat) ==
  [idx \in 0..255 |->
     LET chroma == idx \div 16
         luma == idx % 16
     IN  IF chroma = 0 THEN GrayEntry(luma) ELSE ColorEntry(chroma, luma, phase, sat)]

\* the tables of every setting the model reaches, computed once
PhaseRange == (DEFAULT_PHASE - MaxPhaseSteps)..(DEFAULT_PHASE + MaxPhaseSteps)
\* (f @@ <<>> is f, held by TLC as an explicit table rather than a rule)
PaletteTables ==
  [ps \in PhaseRange \X (0..MAX_SATURATION) |-> SynthesizePalette(ps[1], ps[2]) @@ <<>>] @@ <<>>
GenerateGtiaPalette(phase, sat) ==
  IF <<phase, sat>> \in DOMAIN PaletteTables
  THEN PaletteTables[<<phase, sat>>]
  ELSE SynthesizePalette(phase, sat)

\* _decode_frame_gtia on one pixel
DecodePixel(pal_table, luma, chroma) == pal_table[chroma * 16 + luma]

(***************************************************************************)
(* _load_process_full: what the constructor keeps of it.                   *)
(***************************************************************************)
LoadVideoFrames(size, seed) ==
  [i \in 1..NumFrames(size) |-> VideoFrame(Chunk(size, seed, i - 1))]
LoadAudioChunks(size, seed, pal) ==
  [i \in 1..NumFrames(size) |-> AudioTap(Chunk(size, seed, i - 1), pal)]
\* per frame, the working array ac with the indices assigned in it
LoadAudioWork(size, seed, pal) ==
  [i \in 1..NumFrames(size) |->
     LET w == AudioWork(Chunk(size, seed, i - 1), pal)
     IN  [ac |-> w.ac, written |-> w.written]]
\* final: tgt_samples rows, one column per mixer channel
LoadSound(size, pal, freq, chans) ==
  [samples |-> TgtSamples(NumFrames(size), pal, freq), chans |-> chans]

(***************************************************************************)
(* __init__ up to the palette (lines 45-76), for a file and a device drawn *)
(* from the given sets.  The clock starts at 0 with pygame.init().         *)
(***************************************************************************)
InitWith(sizes, seeds, systems, freqs, chans) ==
  /\ filesize \in sizes
  /\ fill \in seeds
  /\ is_pal \in systems
  /\ mix_freq \in freqs
  /\ mix_chans \in chans
  /\ looping = FALSE
  /\ debug_mode = FALSE
  /\ show_scanlines = TRUE
  /\ enable_blending = TRUE
  /\ phase_shift = DEFAULT_PHASE
  /\ saturation = DEFAULT_SATURATION
  /\ palette = GenerateGtiaPalette(DEFAULT_PHASE, DEFAULT_SATURATION)
  /\ video_frames = <<>>
  /\ final_sound_obj = [samples |-> 0, chans |-> 0]
  /\ audio_chunks = <<>>
  /\ audio_work = <<>>
  /\ pc = "load"
  /\ running = FALSE
  /\ loop_active = FALSE
  /\ paused = FALSE
  /\ pause_start = 0
  /\ start_ticks = 0
  /\ f_idx = 0
  /\ now = 0
  /\ audio = "idle"
  /\ ev = "none"
  /\ play_ref = 0
  /\ pause_began = 0
  /\ had_pause = FALSE
  /\ last_idx = -1

\* line 80: self.video_frames, self.final_sound_obj, self.viz_array = ...
LoadProcessFull ==
  /\ pc = "load"
  /\ video_frames' = LoadVideoFrames(filesize, fill)
  /\ audio_chunks' = LoadAudioChunks(filesize, fill, is_pal)
  /\ audio_work' = LoadAudioWork(filesize, fill, is_pal)
  /\ final_sound_obj' = LoadSound(filesize, is_pal, mix_freq, mix_chans)
  /\ pc' = "loaded"
  /\ UNCHANGED <<fileVars, tuneVars, flagVars, loopVars, histVars, now, audio, ev>>

\* lines 82-88 and 215-224: the constructor returns (the loader's locals are
\* gone) and run() begins with running = True
EnterRun ==
  /\ pc = "loaded"
  /\ audio_chunks' = <<>>
  /\ audio_work' = <<>>
  /\ running' = TRUE
  /\ pc' = "session"
  /\ UNCHANGED <<fileVars, tuneVars, flagVars, video_frames, final_sound_obj,
                 loop_active, paused, pause_start, start_ticks, f_idx,
                 histVars, now, audio, ev>>

(***************************************************************************)
(* run()                                                                   *)
(***************************************************************************)
\* int((ticks/1000.0) * self.fps)
FrameIndex(t, pal) == (t * Fps(pal)) \div 100000

\* start_ticks += (pygame.time.get_ticks() - pause_start)
ResumeStartMutant(start, t, ps) == start
ResumeStart(start, t, ps) == start + (t - ps)

\* where control goes when an iteration of the inner loop ends: the inner
\* loop, the outer loop, or pygame.quit()
LoopCond(la, r) == IF la /\ r THEN "frame" ELSE IF r THEN "session" ELSE "quit"

\* a step in which time passes (see Elapse)
TimePasses == now' > now \/ start_ticks' < start_ticks

\* Time d passes.  The program uses clock readings only through their
\* differences (now - start_ticks, now - pause_start), so when the reading
\* would pass MaxTicks the origin of the time axis is moved forward instead:
\* every reading held by the program drops by the same amount (pause_start is
\* held only while paused; otherwise it is overwritten before it is read).
\* Before a session starts no reading is held.
Elapse(d) ==
  LET sh == Max(0, now + d - MaxTicks)
  IN  /\ sh > 0 => (pc # "session" /\ start_ticks >= sh)
      /\ now' = now + d - sh
      /\ start_ticks' = start_ticks - sh
      /\ pause_start' = IF paused THEN pause_start - sh ELSE pause_start
      /\ play_ref' = play_ref - sh
      /\ pause_began' = IF paused THEN pause_began - sh ELSE pause_began

\* time passes between two statements of run()
Tick ==
  /\ pc \in {"session", "frame", "events", "render"}
  /\ Elapse(TickMs)
  /\ UNCHANGED <<fileVars, tuneVars, flagVars, dataVars, running, loop_active,
                 paused, f_idx, had_pause, last_idx, pc, audio, ev>>

\* line 321: clock.tick(self.fps * 1.5) delays by int(1000 / framerate) ms
FramePeriodMs(pal) == 200000 \div (3 * Fps(pal))

\* what a clock.tick() of the given period waits on a clock of grain g: the
\* period rounded up to the grain (nothing on a standing clock, g = 0)
TickWait(g, ms) == IF g = 0 THEN 0 ELSE g * ((ms + g - 1) \div g)

\* lines 271 and 321: clock.tick(10); continue, and clock.tick(self.fps * 1.5)
\* as the last statement of the inner loop; then the loop tests
ClockTick(g) ==
  /\ pc \in {"wait_paused", "wait_frame"}
  /\ Elapse(TickWait(g, IF pc = "wait_paused" THEN PAUSED_PERIOD_MS
                                              ELSE FramePeriodMs(is_pal)))
  /\ pc' = LoopCond(loop_active, running)
  /\ UNCHANGED <<fileVars, tuneVars, flagVars, dataVars, running, loop_active,
                 paused, f_idx, had_pause, last_idx, audio, ev>>

\* lines 225-230: play(), start_ticks = get_ticks(), paused = False
StartSession ==
  /\ pc = "session"
  /\ running
  /\ audio' = "playing"
  /\ start_ticks' = now
  /\ paused' = FALSE
  /\ pause_start' = 0
  /\ loop_active' = TRUE
  /\ pc' = "frame"
  /\ play_ref' = now
  /\ pause_began' = 0
  /\ had_pause' = FALSE
  /\ last_idx' = -1
  /\ UNCHANGED <<fileVars, tuneVars, flagVars, dataVars, running, f_idx, now, ev>>

\* line 237: if f_idx >= len(self.video_frames)
AtEndMutant(idx, n) == idx > n
AtEnd(idx, n) == idx >= n

\* what the end-of-file branch does when looping is off (lines 242-244)
EndNoLoopMutant == [running |-> TRUE, loop_active |-> FALSE, pc |-> "session"]
EndNoLoop == [running |-> FALSE, loop_active |-> loop_active, pc |-> "quit"]

\* lines 231-244: the clock is read unless paused (ticks, kept by the code for
\* the debug overlay only, is now - start_ticks), then the end-of-file test
FrameStep ==
  /\ pc = "frame"
  /\ f_idx' = IF paused THEN f_idx ELSE FrameIndex(now - start_ticks, is_pal)
  /\ IF AtEnd(f_idx', Len(video_frames))
     THEN /\ audio' = "stopped"
          /\ IF looping
             THEN /\ loop_active' = FALSE
                  /\ running' = running
                  /\ pc' = "session"
             ELSE /\ loop_active' = EndNoLoop.loop_active
                  /\ running' = EndNoLoop.running
                  /\ pc' = EndNoLoop.pc
     ELSE /\ pc' = "events"
          /\ UNCHANGED <<audio, loop_active, running>>
  /\ UNCHANGED <<fileVars, tuneVars, flagVars, dataVars, paused, pause_start,
                 start_ticks, histVars, now, ev>>

\* lines 248 and 250: QUIT, or KEYDOWN of ESCAPE
EvQuit ==
  /\ pc = "events"
  /\ running' = FALSE
  /\ loop_active' = FALSE
  /\ ev' = "other"
  /\ UNCHANGED <<fileVars, tuneVars, flagVars, dataVars, paused, pause_start,
                 start_ticks, f_idx, histVars, pc, now, audio>>

\* line 251
KeyLMutant ==
  /\ pc = "events"
  /\ looping' = ~looping
  /\ loop_active' = FALSE
  /\ ev' = "other"
  /\ UNCHANGED <<fileVars, tuneVars, debug_mode, show_scanlines, enable_blending,
                 dataVars, running, paused, pause_start, start_ticks, f_idx,
                 histVars, pc, now, audio>>
KeyL ==
  /\ pc = "events"
  /\ looping' = ~looping
  /\ ev' = "other"
  /\ UNCHANGED <<fileVars, tuneVars, debug_mode, show_scanlines, enable_blending,
                 dataVars, loopVars, histVars, pc, now, audio>>

\* line 252
KeyD ==
  /\ pc = "events"
  /\ debug_mode' = ~debug_mode
  /\ ev' = "other"
  /\ UNCHANGED <<fileVars, tuneVars, looping, show_scanlines, enable_blending,
                 dataVars, loopVars, histVars, pc, now, audio>>

\* line 253
KeyS ==
  /\ pc = "events"
  /\ show_scanlines' = ~show_scanlines
  /\ ev' = "other"
  /\ UNCHANGED <<fileVars, tuneVars, looping, debug_mode, enable_blending,
                 dataVars, loopVars, histVars, pc, now, audio>>

\* line 254
KeyB ==
  /\ pc = "events"
  /\ enable_blending' = ~enable_blending
  /\ ev' = "other"
  /\ UNCHANGED <<fileVars, tuneVars, looping, debug_mode, show_scanlines,
                 dataVars, loopVars, histVars, pc, now, audio>>

\* line 257: pause_start = pygame.time.get_ticks()
PauseMark(t) == t

\* lines 255-257
KeySpace ==
  /\ pc = "events"
  /\ IF paused
     THEN /\ audio' = "playing"
          /\ start_ticks' = ResumeStart(start_ticks, now, pause_start)
          /\ paused' = FALSE
          /\ play_ref' = play_ref + (now - pause_began)
          /\ had_pause' = (had_pause \/ now > pause_began)
          /\ UNCHANGED <<pause_start, pause_began>>
     ELSE /\ audio' = "paused"
          /\ pause_start' = PauseMark(now)
          /\ paused' = TRUE
          /\ pause_began' = now
          /\ UNCHANGED <<start_ticks, play_ref, had_pause>>
  /\ ev' = "other"
  /\ UNCHANGED <<fileVars, tuneVars, flagVars, dataVars, running, loop_active,
                 f_idx, last_idx, pc, now>>

\* lines 263-264 and 266-267: the new values of the two tunables
SatUp(s) == Min(MAX_SATURATION, s + 1)
SatDownMutant(s) == s - 1
SatDown(s) == Max(0, s - 1)
PhaseUp(p) == p + 1
PhaseDown(p) == p - 1

\* line 269: if regen: self.palette = self._generate_gtia_palette()
RegenMutant(table, phase, sat) == [idx \in 0..255 |-> IF idx < 128 THEN GenerateGtiaPalette(phase, sat)[idx] ELSE table[idx]]
Regen(table, phase, sat) == GenerateGtiaPalette(phase, sat)

\* lines 260-269, a bracket key: with SHIFT held it moves the saturation,
\* without it the phase.  The phase is not clamped by the code; the model
\* delivers a phase key only within MaxPhaseSteps of the default.
KeyBracket(shift, right) ==
  /\ pc = "events"
  /\ shift \/ (IF right THEN phase_shift < DEFAULT_PHASE + MaxPhaseSteps
                        ELSE phase_shift > DEFAULT_PHASE - MaxPhaseSteps)
  /\ saturation' = IF shift THEN (IF right THEN SatUp(saturation) ELSE SatDown(saturation))
                   ELSE saturation
  /\ phase_shift' = IF shift THEN phase_shift
                    ELSE (IF right THEN PhaseUp(phase_shift) ELSE PhaseDown(phase_shift))
  /\ palette' = Regen(palette, phase_shift', saturation')
  /\ ev' = IF shift THEN (IF right THEN "sat_up" ELSE "sat_down")
           ELSE (IF right THEN "phase_up" ELSE "phase_down")
  /\ UNCHANGED <<fileVars, flagVars, dataVars, loopVars, histVars, pc, now, audio>>

KeySatUp == KeyBracket(TRUE, TRUE)
KeySatDown == KeyBracket(TRUE, FALSE)
KeyPhaseUp == KeyBracket(FALSE, TRUE)
KeyPhaseDown == KeyBracket(FALSE, FALSE)

\* line 271: the event list is exhausted; if paused: ... else the render
EventsDone ==
  /\ pc = "events"
  /\ pc' = IF paused THEN "wait_paused" ELSE "render"
  /\ ev' = "none"
  /\ UNCHANGED <<fileVars, tuneVars, flagVars, dataVars, loopVars, histVars, now, audio>>

\* lines 273-321: vf = self.video_frames[f_idx] raises IndexError out of range
Render ==
  /\ pc = "render"
  /\ IF f_idx + 1 \in DOMAIN video_frames
     THEN /\ last_idx' = f_idx
          /\ pc' = "wait_frame"
     ELSE /\ pc' = "IndexError"
          /\ UNCHANGED last_idx
  /\ UNCHANGED <<fileVars, tuneVars, flagVars, dataVars, loopVars, play_ref,
                 pause_began, had_pause, now, audio, ev>>

\* line 322
Quit ==
  /\ pc = "quit"
  /\ audio' = "closed"
  /\ pc' = "done"
  /\ UNCHANGED <<fileVars, tuneVars, flagVars, dataVars, loopVars, histVars, now, ev>>

(***************************************************************************)
(* Specifications                                                          *)
(***************************************************************************)
\* the loader, over many file sizes and devices
InitLoad == InitWith(FileSizes, 0..MaxSeed, BOOLEAN, MixFreqs, {1, 2})
NextLoad == LoadProcessFull \/ EnterRun
SpecLoad == InitLoad /\ [][NextLoad]_vars

\* playback timing: files of 0..MaxFrames frames, transport events
RunSizes == {q * FRAME_SIZE_BYTES : q \in 0..MaxFrames}
Init == InitWith(RunSizes, {0}, BOOLEAN, {44100}, {2})
Next ==
  \/ LoadProcessFull
  \/ EnterRun
  \/ Tick
  \/ StartSession
  \/ FrameStep
  \/ EvQuit
  \/ KeyL
  \/ KeySpace
  \/ EventsDone
  \/ Render
  \/ ClockTick(TickMs)
  \/ Quit
Spec == Init /\ [][Next]_vars

\* live tuning: every key, on a one-frame PAL file, with the clock standing
InitTune == InitWith({FRAME_SIZE_BYTES}, {0}, {TRUE}, {44100}, {2})
NextTune ==
  \/ LoadProcessFull
  \/ EnterRun
  \/ StartSession
  \/ FrameStep
  \/ EvQuit
  \/ KeyL
  \/ KeyD
  \/ KeyS
  \/ KeyB
  \/ KeySpace
  \/ KeySatUp
  \/ KeySatDown
  \/ KeyPhaseUp
  \/ KeyPhaseDown
  \/ EventsDone
  \/ Render
  \/ ClockTick(0)
  \/ Quit
SpecTune == InitTune /\ [][NextTune]_vars

\* playback from the default settings, with its scheduling: the single thread
\* of run() goes on from every statement and pygame.event.get() returns a
\* finite list.
\* InitLive is the state in which run() is entered: that of Init after
\* LoadProcessFull and EnterRun.
InitLive ==
  /\ filesize \in RunSizes
  /\ fill = 0
  /\ is_pal \in BOOLEAN
  /\ mix_freq = 44100
  /\ mix_chans = 2
  /\ looping = FALSE
  /\ debug_mode = FALSE
  /\ show_scanlines = TRUE
  /\ enable_blending = TRUE
  /\ phase_shift = DEFAULT_PHASE
  /\ saturation = DEFAULT_SATURATION
  /\ palette = GenerateGtiaPalette(DEFAULT_PHASE, DEFAULT_SATURATION)
  /\ video_frames = LoadVideoFrames(filesize, fill)
  /\ final_sound_obj = LoadSound(filesize, is_pal, mix_freq, mix_chans)
  /\ audio_chunks = <<>>
  /\ audio_work = <<>>
  /\ pc = "session"
  /\ running = TRUE
  /\ loop_active = FALSE
  /\ paused = FALSE
  /\ pause_start = 0
  /\ start_ticks = 0
  /\ f_idx = 0
  /\ now = 0
  /\ audio = "idle"
  /\ ev = "none"
  /\ play_ref = 0
  /\ pause_began = 0
  /\ had_pause = FALSE
  /\ last_idx = -1
NextLive ==
  \/ Tick
  \/ StartSession
  \/ FrameStep
  \/ EvQuit
  \/ KeyL
  \/ KeySpace
  \/ EventsDone
  \/ Render
  \/ ClockTick(TickMs)
  \/ Quit
Fairness ==
  /\ WF_vars(StartSession)
  /\ WF_vars(FrameStep)
  /\ WF_vars(EventsDone)
  /\ WF_vars(Render)
  /\ WF_vars(ClockTick(TickMs))
  /\ WF_vars(Quit)
SpecLive == InitLive /\ [][NextLive]_vars /\ Fairness

(***************************************************************************)
(* Properties of the loader (checked under SpecLoad)                       *)
(***************************************************************************)
Loaded == pc = "loaded"

\* C1, as stated: for every file size s the loader produces exactly
\* floor((s - (8192 if s mod 8704 # 0 else 0)) / 8704) video frames, and as
\* many audio taps as video frames.
C1_FrameCountAsStated ==
  Loaded =>
    /\ Len(video_frames) = (filesize - (IF filesize % 8704 # 0 THEN 8192 ELSE 0)) \div 8704
    /\ Len(audio_chunks) = Len(video_frames)

\* C1, amended: the number of video frames is that quotient when it is not
\* negative and 0 otherwise (a file shorter than the header it is taken to
\* have yields no frame), and the number of audio taps equals it.
C1_FrameCount ==
  Loaded =>
    /\ Len(video_frames) =
         Max(0, (filesize - (IF filesize % 8704 # 0 THEN 8192 ELSE 0)) \div 8704)
    /\ Len(audio_chunks) = Len(video_frames)

\* C1 witness: a loaded file shorter than its header, and no frame.
C1_Witness ==
  /\ Loaded
  /\ filesize > 0
  /\ filesize < HEADER_SIZE
  /\ Len(video_frames) = 0
  /\ Len(audio_chunks) = 0

\* C8: for both standards and every chunk, the tap of a frame has exactly
\* audio_len entries (312 for 50 Hz, 262 for 60 Hz), every index the tap
\* algorithm assigns lies inside the 512-entry working array, and every entry
\* the algorithm did not assign (in the working array, so in the tap too)
\* holds the silence value 50.
C8_AudioTap ==
  Loaded =>
    \A i \in DOMAIN audio_chunks :
      LET tap == audio_chunks[i]
          w == audio_work[i]
          n == IF is_pal THEN 312 ELSE 262
      IN  /\ DOMAIN tap = 0..(n - 1)
          /\ w.written \subseteq 0..511
          /\ \A k \in (0..511) \ w.written : w.ac[k] = 50
          /\ \A k \in DOMAIN tap : tap[k] = w.ac[k]
          /\ \A k \in DOMAIN tap : k \notin w.written => tap[k] = 50

\* C8 witness: a 60 Hz file of two frames is loaded, the second tap has an
\* entry taken from the chunk, and the working array an entry left silent.
C8_Witness ==
  /\ Loaded
  /\ ~is_pal
  /\ Len(audio_chunks) = 2
  /\ \E k \in DOMAIN audio_chunks[2] :
       k \in audio_work[2].written /\ audio_chunks[2][k] # 50
  /\ \E k \in 0..511 : k \notin audio_work[2].written /\ audio_work[2].ac[k] = 50

\* C9, as stated: the number of samples per channel of the assembled track
\* is round((n / fps) * output_sample_rate), fps = 49.86 or 59.92.
C9_SampleCountAsStated ==
  Loaded =>
    LET n == Len(video_frames)
        f == IF is_pal THEN 4986 ELSE 5992
    IN  final_sound_obj.samples = (2 * n * mix_freq * 100 + f) \div (2 * f)

\* C9, amended: the number of samples per channel is (n / fps) *
\* output_sample_rate truncated to an integer, which is round(...) or one
\* less; the track has one column per mixer channel.
C9_SampleCount ==
  Loaded =>
    LET n == Len(video_frames)
        f == IF is_pal THEN 4986 ELSE 5992
        r == (2 * n * mix_freq * 100 + f) \div (2 * f)
    IN  /\ final_sound_obj.samples * f <= n * mix_freq * 100
        /\ (final_sound_obj.samples + 1) * f > n * mix_freq * 100
        /\ final_sound_obj.samples \in {r - 1, r}
        /\ final_sound_obj.chans = mix_chans

\* C9 witness: a loaded track whose length is one less than the rounded value.
C9_Witness ==
  /\ Loaded
  /\ Len(video_frames) = 2
  /\ is_pal
  /\ mix_freq = 44100
  /\ final_sound_obj.samples = 1768

(***************************************************************************)
(* Properties of the playback clock (checked under Spec)                   *)
(***************************************************************************)
\* the step that reads the clock and tests for the end of the file
IsFrameStep == pc = "frame" /\ pc' # "frame"
\* a step of the event loop that handles one event
IsEventStep == pc = "events" /\ pc' = "events" /\ ~TimePasses
\* the step that renders a frame
IsRenderStep == pc = "render" /\ pc' # "render"

\* C3: within a session, whatever the pauses and resumes, the frame index
\* taken at a clock read is floor(elapsed * fps), elapsed being the time since
\* the session began less the time spent paused, and that index is the one
\* rendered; a resume moves the start reference forward by exactly the length
\* of the pause it ends; while paused the index does not advance and no frame
\* is rendered.
C3_FrameClock ==
  /\ [](pc = "render" => ~paused)
  /\ [][/\ (IsFrameStep /\ ~paused) =>
             f_idx' = ((now - play_ref)
                          * (IF is_pal THEN 4986 ELSE 5992)) \div 100000
        /\ (IsEventStep /\ paused /\ ~paused') =>
             start_ticks' = start_ticks + (now - pause_began)
        /\ (IsEventStep /\ ~paused /\ paused') => start_ticks' = start_ticks
        /\ pc \in {"events", "render", "wait_paused", "wait_frame"} => f_idx' = f_idx
        /\ paused => (f_idx' = f_idx /\ last_idx' = last_idx)
        /\ IsRenderStep => (pc' # "IndexError" => last_idx' = f_idx)
       ]_vars

\* C3 witness: a frame past the first is about to be rendered in a session
\* that has spent time paused.
C3_Witness ==
  /\ pc = "render"
  /\ had_pause
  /\ f_idx >= 1
  /\ start_ticks = play_ref

\* C4: whenever the frame index computed at a clock read is past the last
\* frame, audio is stopped and then: with looping on, the next step of the
\* program starts a session (start reference = the current time, paused
\* cleared, audio playing again); with looping off, running is cleared, the
\* program goes to shutdown and renders no further frame.
C4_EndOfFile ==
  [][/\ (IsFrameStep /\ f_idx' >= Len(video_frames)) =>
          /\ audio' = "stopped"
          /\ looping => (pc' = "session" /\ running')
          /\ ~looping => (pc' = "quit" /\ ~running')
     /\ (IsFrameStep /\ f_idx' < Len(video_frames)) => (pc' = "events" /\ audio' = audio)
     /\ (pc = "session" /\ pc' # "session") =>
          /\ pc' = "frame"
          /\ start_ticks' = now
          /\ ~paused'
          /\ audio' = "playing"
     /\ pc \in {"quit", "done"} => (pc' \in {"quit", "done"} /\ last_idx' = last_idx)
    ]_vars

\* C4 witness: a session restarted by the loop: the index of the previous
\* session is still past the last frame, audio plays, the start reference is
\* the current time.
C4_Witness ==
  /\ pc = "frame"
  /\ looping
  /\ Len(video_frames) >= 1
  /\ f_idx >= Len(video_frames)
  /\ audio = "playing"
  /\ ~paused
  /\ start_ticks = now
  /\ now > 0

\* C10: the frame index read in the render step satisfies
\* 0 <= f_idx < frame count (so the frame count is not zero there and the read
\* never raises), and within a session it is never less than the index
\* rendered before.
C10_IndexInRange ==
  /\ pc # "IndexError"
  /\ pc = "render" =>
       /\ 0 <= f_idx
       /\ f_idx < Len(video_frames)
       /\ Len(video_frames) > 0
       /\ last_idx <= f_idx

\* C10 witness: the last frame of a looping session is about to be rendered,
\* after a pause and after an earlier frame.
C10_Witness ==
  /\ pc = "render"
  /\ looping
  /\ had_pause
  /\ last_idx >= 0
  /\ f_idx > last_idx
  /\ f_idx = Len(video_frames) - 1

(***************************************************************************)
(* Properties of live tuning (checked under SpecTune)                      *)
(***************************************************************************)
\* C2: after any sequence of events, whenever a frame is about to be decoded
\* the palette in use is the table synthesized from the current phase_shift
\* and saturation: no stale and no partly rebuilt table is read.
C2_PaletteCurrent ==
  pc = "render" => palette = GenerateGtiaPalette(phase_shift, saturation)

\* C2 witness: a frame is about to be decoded after both tunables were moved
\* and the palette is no longer the default one.
C2_Witness ==
  /\ pc = "render"
  /\ phase_shift # DEFAULT_PHASE
  /\ saturation # DEFAULT_SATURATION
  /\ palette # GenerateGtiaPalette(DEFAULT_PHASE, DEFAULT_SATURATION)

\* C6: no event handled by run() changes the loaded video frames, the
\* assembled track or its length, or the standard that fixes fps; and an
\* event that changes a tunable, the palette or a toggle flag changes nothing
\* else of the player.
C6_EventsKeepData ==
  [][IsEventStep =>
       /\ video_frames' = video_frames
       /\ final_sound_obj' = final_sound_obj
       /\ is_pal' = is_pal
       /\ mix_freq' = mix_freq
       /\ (<<tuneVars, flagVars>>' # <<tuneVars, flagVars>>) =>
            (<<loopVars, audio, fileVars, dataVars>>' = <<loopVars, audio, fileVars, dataVars>>)
    ]_vars

\* C6 witness: tuning and toggle events have been handled and the frames and
\* the track are those of the load.
C6_Witness ==
  /\ pc = "events"
  /\ looping
  /\ debug_mode
  /\ ~show_scanlines
  /\ ~enable_blending
  /\ saturation # DEFAULT_SATURATION
  /\ phase_shift # DEFAULT_PHASE
  /\ paused
  /\ Len(video_frames) = 1
  /\ final_sound_obj.samples = 884

\* C7: from the defaults, saturation stays within [0, 2.0] (0..40 steps of
\* 0.05); a saturation-up event sets it to min(2.0, saturation + 0.05), a
\* saturation-down event to max(0, saturation - 0.05), neither changing
\* phase_shift; a phase event changes phase_shift by exactly one step up or
\* down, unclamped, and leaves saturation alone.
C7_Tuning ==
  /\ [](saturation >= 0 /\ saturation <= 40)
  /\ [][IsEventStep =>
          /\ ev' = "sat_up" =>
               /\ saturation' = (IF saturation + 1 > 40 THEN 40 ELSE saturation + 1)
               /\ phase_shift' = phase_shift
          /\ ev' = "sat_down" =>
               /\ saturation' = (IF saturation - 1 < 0 THEN 0 ELSE saturation - 1)
               /\ phase_shift' = phase_shift
          /\ ev' = "phase_up" =>
               /\ phase_shift' = phase_shift + 1
               /\ saturation' = saturation
          /\ ev' = "phase_down" =>
               /\ phase_shift' = phase_shift - 1
               /\ saturation' = saturation
          /\ ev' = "other" =>
               /\ phase_shift' = phase_shift
               /\ saturation' = saturation
       ]_vars

\* C7 witness: a saturation-up event was handled at the upper clamp.
C7_Witness ==
  /\ pc = "events"
  /\ ev = "sat_up"
  /\ saturation = 40
  /\ phase_shift = 36 + 1

(***************************************************************************)
(* Termination (checked under SpecLive)                                    *)
(***************************************************************************)
CleanExit == pc = "done" /\ ~running /\ audio = "closed"

\* the wall clock keeps advancing for as long as run() has not returned
ClockRuns == <>(pc = "done") \/ []<><<TimePasses>>_vars

\* C5, as stated: if looping is off and stays off, every pause is eventually
\* followed by a resume and the wall clock keeps advancing, run() eventually
\* leaves its loops and shuts down, for any frame count.
C5_TerminatesAsStated ==
  ([]~looping /\ [](paused => <>~paused) /\ ClockRuns) => <>CleanExit

\* C5, amended: if looping is off and stays off, from some moment on playback
\* is not paused any more (finitely many pauses, each resumed) and the wall
\* clock keeps advancing, run() eventually leaves its loops and shuts down, for
\* any frame count including zero.
C5_Terminates ==
  ([]~looping /\ <>[]~paused /\ ClockRuns) => <>CleanExit

\* C5 witness: shutdown reached with looping off after the last frame of a
\* session that was paused and resumed.
C5_Witness ==
  /\ CleanExit
  /\ ~looping
  /\ ~paused
  /\ had_pause
  /\ Len(video_frames) >= 1
  /\ f_idx >= Len(video_frames)
  /\ last_idx >= 0

====
